---- MODULE Spec2Model ----
(***************************************************************************)
(* Model of neptunelearn/linear_models/neural_classifier.py:               *)
(* the Perceptron (online, mistake driven) and AdalineGD (batch gradient   *)
(* descent) classifiers.  One model instance is constructed, then fit and  *)
(* predict are called on it.  fit is modelled statement block by statement *)
(* block: the while loop, the for loop over the samples and the epoch end. *)
(*                                                                         *)
(* Numbers.  The Perceptron works on integer valued data, on which float64 *)
(* arithmetic is exact, so its weights are integers here.  AdalineGD       *)
(* divides by n and multiplies by eta: its weights and costs are exact     *)
(* rationals (numerators over one positive denominator).                   *)
(*                                                                         *)
(* NeuralBase (base.py: make_polynomial, net_input) is not among the       *)
(* sources; both are modelled from the design document (degree 1 only).    *)
(* pandas.DataFrame.from_dict at the end of Perceptron.fit labels three    *)
(* columns, so the model trains on two raw features plus the bias column.  *)
(***************************************************************************)
EXTENDS Integers, Sequences, FiniteSets, TLC

\* ------------------------------------------------------------ bounds
\* Largest number of samples of the dataset of a single Perceptron.fit call.
MaxSamples == 4
\* Largest total number of samples over all the fit calls of one instance
\* when an instance is fitted several times; also the largest dataset of the
\* fair runs and of the scaled-update runs.
MaxRefitSamples == 3
\* Largest number of fit calls on one instance.
MaxFits == 2
\* Cap on the epochs of one Perceptron.fit call (the code has none).
MaxEpochs == 10
\* Largest niter hyperparameter of AdalineGD.
MaxNiter == 3

\* ------------------------------------------------------------ constants
\* tol: float = 10e-6, as the rational TolNum / TolDen.
TolNum == 1
TolDen == 100000

\* Raw feature values and the raw sample points (two features).
FeatureVals == {0, 1}
Points == {<<a, b>> : a \in FeatureVals, b \in FeatureVals}
Labels == {1, -1}

\* ------------------------------------------------------------ arithmetic
RECURSIVE SumSeq(_)
SumSeq(s) == IF s = <<>> THEN 0 ELSE Head(s) + SumSeq(Tail(s))

Dot(a, b) == SumSeq([k \in 1..Len(a) |-> a[k] * b[k]])

NormSq(v) == Dot(v, v)

Abs(n) == IF n < 0 THEN -n ELSE n

RECURSIVE GCD(_, _)
GCD(a, b) == IF b = 0 THEN Abs(a) ELSE GCD(b, a % Abs(b))

\* Sequences over S of length 1..n.
SeqsUpTo(S, n) == UNION {[1..k -> S] : k \in 1..n}

\* ------------------------------------------------------------ NeuralBase
\* make_polynomial(X, degree = 1, bias): the identity expansion, prefixed by
\* a constant-1 column when bias is set.
make_polynomial(Xr, bias) ==
    [k \in 1..Len(Xr) |-> IF bias THEN <<1>> \o Xr[k] ELSE Xr[k]]

\* net_input(x, thetas) for one row: the dot product.
net_input(x, th) == Dot(x, th)

\* ------------------------------------------------------------ Perceptron
\* Mutant of ZeroThetas: the weights start at one, not at zero.
OnesThetas(n) == [k \in 1..n |-> 1]

\* np.zeros(X.shape[1])
ZeroThetas(n) == [k \in 1..n |-> 0]

\* Perceptron.predict: 1 if net_input(X, thetas) >= 0 else -1
predict(x, th) == IF net_input(x, th) >= 0 THEN 1 ELSE -1

\* Mutant of Update: the step is subtracted.
UpdateWrongSign(th, target, xi, num) ==
    [k \in 1..Len(th) |-> th[k] - num * target * xi[k]]

\* Mutant of Update: the step forgets the target's sign.
UpdateNoTarget(th, target, xi, num) == [k \in 1..Len(th) |-> th[k] + num * xi[k]]

\* self.thetas += target * xi, with the weights held as numerators over a
\* fixed denominator and the step scaled by num (the code: num = 1).
Update(th, target, xi, num) == [k \in 1..Len(th) |-> th[k] + num * target * xi[k]]

\* Mutant of SampleStep: the mistake is not counted.
SampleStepNoCount(th, err, xi, target, num) ==
    IF target # predict(xi, th)
    THEN [thetas |-> Update(th, target, xi, num), error |-> err]
    ELSE [thetas |-> th, error |-> err]

\* The body of the for loop, lines 68-70, on the pair (thetas, error):
\* update weights if there are misclassifications.
SampleStep(th, err, xi, target, num) ==
    IF target # predict(xi, th)
    THEN [thetas |-> Update(th, target, xi, num), error |-> err + 1]
    ELSE [thetas |-> th, error |-> err]

\* Mutant of LeqTol: the tolerance is taken to be 1.
LeqOne(d, den) == NormSq(d) <= den * den

\* np.linalg.norm(d / den) <= tol for an integer vector d: with
\* A / B = TolDen / (TolNum * den) in lowest terms, NormSq(d) * A^2 <= B^2.
LeqTol(d, den) ==
    LET g == GCD(TolDen, TolNum * den)
        A == TolDen \div g
        B == (TolNum * den) \div g
    IN  NormSq(d) <= ((B * B) \div A) \div A

\* Mutant of Converged: the norms are subtracted, not the vectors
\* (norm(thetas) - norm(prev_weights) <= tol).
ConvergedNormDiff(th, prev, den) == NormSq(th) <= NormSq(prev)

\* np.linalg.norm(self.thetas - prev_weights) <= self.tol
Converged(th, prev, den) == LeqTol([k \in 1..Len(th) |-> th[k] - prev[k]], den)

VARIABLES
    cls,          \* the class of the instance: "Perceptron" or "AdalineGD"
    pc,           \* where the caller / fit stands
    fitsLeft,     \* fit calls the instance may still receive
    budget,       \* samples the instance may still be trained on
    X, y,         \* the arguments of the running (or last) fit call
    thetas,       \* Perceptron: self.thetas
    self_weights, \* Perceptron: self.weights (None, or the trajectory)
    errors,       \* Perceptron: self.errors (unset before the first fit)
    weights,      \* Perceptron.fit local: the dict index -> thetas copy
    index,        \* Perceptron.fit local
    converged,    \* Perceptron.fit local
    error,        \* Perceptron.fit local: mistakes of the running epoch
    prev_weights, \* Perceptron.fit local
    pos,          \* Perceptron.fit: position of the for loop in zip(X, y)
    scale,        \* <<num, den>>: the constant c = num / den of the scaled run
    scaled,       \* the same fit with the update thetas += c * target * xi
    out,          \* the labels the last predict call returned (<<>>: none)
    eta,          \* AdalineGD: self.eta, as <<num, den>>
    niter,        \* AdalineGD: self.niter
    cost,         \* AdalineGD: self.cost, a list of rationals <<num, den>>
    gd_thetas,    \* AdalineGD: self.thetas, [num, den]: num[k] / den
    it,           \* AdalineGD.fit: iterations of the for loop done
    cost0,        \* history: len(self.cost) when the running fit was called
    updates       \* history: weight updates made by the running fit

pLocals == <<weights, index, converged, error, prev_weights, pos>>

pVars == <<thetas, self_weights, errors, pLocals, scale, scaled>>

gdVars == <<eta, niter, cost, gd_thetas, it, cost0, updates>>

vars == <<cls, pc, fitsLeft, budget, X, y, out, pVars, gdVars>>

\* The design matrix of the running fit call (bias: bool = True, degree = 1).
Design == make_polynomial(X, TRUE)

\* Datasets: a non-empty sequence of (point, label) samples.
Samples == Points \X Labels
Datasets(n) == SeqsUpTo(Samples, n)

\* ---- the scaled run: Perceptron.fit with thetas += c * target * xi in the
\* place of line 69, run in step with the code's fit on the same arguments.
\* Its weights are the numerators over scale[2].
ScaledStart(n) ==
    [thetas |-> [k \in 1..n |-> scale[2] * ZeroThetas(n)[k]],
     errors |-> <<>>, converged |-> FALSE, error |-> 0, prev_weights |-> <<>>]

ScaledEpochBegin ==
    IF scaled.converged THEN scaled
    ELSE [scaled EXCEPT !.error = 0, !.prev_weights = scaled.thetas]

ScaledSample(xi, target) ==
    IF scaled.converged THEN scaled
    ELSE LET r == SampleStep(scaled.thetas, scaled.error, xi, target, scale[1])
         IN  [scaled EXCEPT !.thetas = r.thetas, !.error = r.error]

ScaledEpochEnd ==
    IF scaled.converged THEN scaled
    ELSE [scaled EXCEPT
            !.errors = Append(scaled.errors, scaled.error),
            !.converged = Converged(scaled.thetas, scaled.prev_weights, scale[2])]

\* self.thetas = None
NoneThetas == [num |-> <<>>, den |-> 0]

\* The AdalineGD attributes of an instance that is a Perceptron.
GdUnused ==
    /\ eta = <<1, 1>> /\ niter = 0 /\ cost = <<>> /\ gd_thetas = NoneThetas
    /\ it = 0 /\ cost0 = 0 /\ updates = 0

\* The Perceptron attributes and locals of an instance that is an AdalineGD.
PUnused ==
    /\ thetas = <<>> /\ self_weights = "None" /\ errors = "unset"
    /\ weights = <<>> /\ index = -1 /\ converged = FALSE
    /\ error = 0 /\ prev_weights = <<>> /\ pos = 0
    /\ scale = <<1, 1>>
    /\ scaled = [thetas |-> <<>>, errors |-> <<>>, converged |-> FALSE,
                 error |-> 0, prev_weights |-> <<>>]

\* A freshly constructed Perceptron (dataclass field defaults).
PerceptronNew ==
    /\ cls = "Perceptron"
    /\ pc = "new"
    /\ X = <<>> /\ y = <<>>
    /\ thetas = <<>>
    /\ self_weights = "None"
    /\ errors = "unset"
    /\ weights = <<>> /\ index = -1 /\ converged = FALSE
    /\ error = 0 /\ prev_weights = <<>> /\ pos = 0
    /\ scaled = [thetas |-> <<>>, errors |-> <<>>, converged |-> FALSE,
                 error |-> 0, prev_weights |-> <<>>]
    /\ out = <<>>
    /\ GdUnused

\* Perceptron.fit, lines 51-60: expand, zero the weights, reset the history.
PFitStart ==
    /\ cls = "Perceptron"
    /\ pc \in {"new", "fitted"}
    /\ fitsLeft > 0
    /\ \E ds \in Datasets(budget) :
          LET Xr == [k \in 1..Len(ds) |-> ds[k][1]]
              ncols == Len(make_polynomial(Xr, TRUE)[1])
          IN  /\ X' = Xr
              /\ y' = [k \in 1..Len(ds) |-> ds[k][2]]
              /\ budget' = budget - Len(ds)
              /\ thetas' = ZeroThetas(ncols)
              /\ scaled' = ScaledStart(ncols)
    /\ fitsLeft' = fitsLeft - 1
    /\ weights' = <<>>
    /\ index' = -1
    /\ converged' = FALSE
    /\ errors' = <<>>
    /\ pc' = "while"
    /\ out' = <<>>
    /\ UNCHANGED gdVars
    /\ UNCHANGED <<cls, self_weights, error, prev_weights, pos, scale>>

\* while not converged (true): lines 62-64, the head of an epoch.
PEpochBegin ==
    /\ cls = "Perceptron" /\ pc = "while"
    /\ ~converged
    /\ index + 1 < MaxEpochs
    /\ error' = 0
    /\ index' = index + 1
    /\ prev_weights' = thetas
    /\ pos' = 1
    /\ pc' = "for"
    /\ scaled' = ScaledEpochBegin
    /\ UNCHANGED gdVars
    /\ UNCHANGED <<cls, fitsLeft, budget, X, y, thetas, self_weights, errors,
                   weights, converged, scale, out>>

\* One iteration of for xi, target in zip(X, y): lines 66-70.
PSample ==
    /\ cls = "Perceptron" /\ pc = "for"
    /\ pos <= Len(X)
    /\ LET r == SampleStep(thetas, error, Design[pos], y[pos], 1)
       IN  /\ thetas' = r.thetas
           /\ error' = r.error
    /\ pos' = pos + 1
    /\ scaled' = ScaledSample(Design[pos], y[pos])
    /\ UNCHANGED gdVars
    /\ UNCHANGED <<cls, pc, fitsLeft, budget, X, y, self_weights, errors,
                   weights, index, converged, prev_weights, scale, out>>

\* After the for loop: lines 71-75.
PEpochEnd ==
    /\ cls = "Perceptron" /\ pc = "for"
    /\ pos > Len(X)
    /\ errors' = Append(errors, error)
    /\ weights' = Append(weights, thetas)
    /\ converged' = IF Converged(thetas, prev_weights, 1) THEN TRUE ELSE converged
    /\ pc' = "while"
    /\ scaled' = ScaledEpochEnd
    /\ UNCHANGED gdVars
    /\ UNCHANGED <<cls, fitsLeft, budget, X, y, thetas, self_weights, index,
                   error, prev_weights, pos, scale, out>>

\* while not converged (false), then lines 77-80: store the trajectory, return.
PFitReturn ==
    /\ cls = "Perceptron" /\ pc = "while"
    /\ converged
    /\ self_weights' = weights
    /\ pc' = "fitted"
    /\ UNCHANGED gdVars
    /\ UNCHANGED <<cls, fitsLeft, budget, X, y, thetas, errors, weights, index,
                   converged, error, prev_weights, pos, scale, scaled, out>>

\* Perceptron.predict(x) called on a fitted instance, x a design-matrix row.
PPredict ==
    /\ cls = "Perceptron" /\ pc = "fitted"
    /\ \E p \in Points :
          out' = <<predict(make_polynomial(<<p>>, TRUE)[1], thetas)>>
    /\ UNCHANGED gdVars
    /\ UNCHANGED <<cls, pc, fitsLeft, budget, X, y, thetas, self_weights,
                   errors, pLocals, scale, scaled>>

NextP == PFitStart \/ PEpochBegin \/ PSample \/ PEpochEnd \/ PFitReturn \/ PPredict

\* ------------------------------------------------------------ AdalineGD
\* Step sizes eta = num / den offered to the constructor.
Etas == {<<1, 4>>, <<1, 1>>, <<3, 1>>}

\* Raw samples of AdalineGD: one feature, a real (here integer) target.
GdPoints == {<<a>> : a \in FeatureVals}
GdTargets == {-1, 0, 1}
GdDatasets(n) == SeqsUpTo(GdPoints \X GdTargets, n)

\* A rational num / den (den > 0) in lowest terms.
Rat(num, den) == LET g == GCD(num, den) IN <<num \div g, den \div g>>

\* a <= b for rationals a, b >= 0, by continued fractions (no products).
RECURSIVE RatLeq(_, _)
RatLeq(a, b) ==
    LET qa == a[1] \div a[2]
        qb == b[1] \div b[2]
        ra == a[1] % a[2]
        rb == b[1] % b[2]
    IN  IF qa # qb THEN qa < qb
        ELSE IF ra = 0 THEN TRUE
        ELSE IF rb = 0 THEN FALSE
        ELSE RatLeq(<<b[2], rb>>, <<a[2], ra>>)

RECURSIVE GCDSeq(_)
GCDSeq(s) == IF s = <<>> THEN 0 ELSE GCD(Head(s), GCDSeq(Tail(s)))

\* A weight vector num / den in lowest terms.
Vec(num, den) ==
    LET g == GCD(den, GCDSeq(num))
    IN  [num |-> [k \in 1..Len(num) |-> num[k] \div g], den |-> den \div g]

\* AdalineGD.activation: the identity.
activation(z) == z

\* Lines 157-158: error = y - activation(net_input(X, thetas)), times th.den.
GdError(th, Xd, yv) ==
    [i \in 1..Len(Xd) |-> yv[i] * th.den - activation(net_input(Xd[i], th.num))]

\* Line 159: loss = (error.T @ error) / (2.0 * n), E the error times den.
GdLoss(E, den, n) == Rat(NormSq(E), den * den * 2 * n)

\* Mutant of GdUpdate: the step is subtracted.
GdUpdateWrongSign(th, Xd, E, et) ==
    LET m == Len(Xd)
        grad == [j \in 1..Len(th.num) |-> SumSeq([i \in 1..m |-> Xd[i][j] * E[i]])]
    IN  Vec([j \in 1..Len(th.num) |-> th.num[j] * et[2] * m - et[1] * grad[j]],
            th.den * et[2] * m)

\* Line 160: self.thetas += self.eta * X.T @ error / X.shape[0]
GdUpdate(th, Xd, E, et) ==
    LET m == Len(Xd)
        grad == [j \in 1..Len(th.num) |-> SumSeq([i \in 1..m |-> Xd[i][j] * E[i]])]
    IN  Vec([j \in 1..Len(th.num) |-> th.num[j] * et[2] * m + et[1] * grad[j]],
            th.den * et[2] * m)

\* Mutant of GdContinue: the loop also stops once the cost went up.
GdContinueWhileDecreasing(done, n_iter, history) ==
    /\ done < n_iter
    /\ IF Len(history) < 2 THEN TRUE
       ELSE RatLeq(history[Len(history)], history[Len(history) - 1])

\* Line 156: for _ in range(self.niter) has a next iteration.
GdContinue(done, n_iter, history) == done < n_iter

\* Mutant of ThetasAfterPredict: a passed weight vector is stored.
ThetasAfterPredictStore(self_thetas, arg) ==
    IF arg = NoneThetas THEN self_thetas ELSE arg

\* AdalineGD.predict's effect on self.thetas: none, whatever thetas is passed.
ThetasAfterPredict(self_thetas, arg) == self_thetas

\* AdalineGD.predict over the rows of a design matrix: np.where(... >= 0.0, 1, -1)
gd_predict(Xd, self_thetas, arg) ==
    LET th == IF arg = NoneThetas THEN self_thetas ELSE arg
    IN  [i \in 1..Len(Xd) |->
            IF activation(net_input(Xd[i], th.num)) >= 0 THEN 1 ELSE -1]

\* AdalineGD.__init__, lines 124-131.
AdalineNew ==
    /\ cls = "AdalineGD"
    /\ pc = "new"
    /\ X = <<>> /\ y = <<>>
    /\ out = <<>>
    /\ eta \in Etas
    /\ niter \in 0..MaxNiter
    /\ cost = <<>>
    /\ gd_thetas = NoneThetas
    /\ it = 0 /\ cost0 = 0 /\ updates = 0
    /\ PUnused

\* AdalineGD.fit, lines 150-154: zero weights; self.cost is left as it is.
AFitStart ==
    /\ cls = "AdalineGD"
    /\ pc \in {"new", "fitted"}
    /\ fitsLeft > 0
    /\ \E ds \in GdDatasets(budget) :
          LET Xr == [k \in 1..Len(ds) |-> ds[k][1]]
          IN  /\ X' = Xr
              /\ y' = [k \in 1..Len(ds) |-> ds[k][2]]
              /\ budget' = budget - Len(ds)
              /\ gd_thetas' = [num |-> ZeroThetas(1 + Len(Xr[1])), den |-> 1]
    /\ fitsLeft' = fitsLeft - 1
    /\ it' = 0
    /\ cost0' = Len(cost)
    /\ updates' = 0
    /\ pc' = "gd_loop"
    /\ out' = <<>>
    /\ UNCHANGED <<cls, eta, niter, cost, pVars>>

\* One iteration of the for loop, lines 157-161.
AIter ==
    /\ cls = "AdalineGD" /\ pc = "gd_loop"
    /\ GdContinue(it, niter, cost)
    /\ LET Xd == make_polynomial(X, TRUE)
           E == GdError(gd_thetas, Xd, y)
       IN  /\ gd_thetas' = GdUpdate(gd_thetas, Xd, E, eta)
           /\ cost' = Append(cost, GdLoss(E, gd_thetas.den, Len(X)))
    /\ it' = it + 1
    /\ updates' = updates + 1
    /\ UNCHANGED <<cls, pc, fitsLeft, budget, X, y, out, eta, niter, cost0, pVars>>

\* The range is exhausted: line 162, return self.
AFitReturn ==
    /\ cls = "AdalineGD" /\ pc = "gd_loop"
    /\ ~GdContinue(it, niter, cost)
    /\ pc' = "fitted"
    /\ UNCHANGED <<cls, fitsLeft, budget, X, y, out, gdVars, pVars>>

\* Weight vectors a caller passes to AdalineGD.predict besides None.
GdArgs == {NoneThetas, [num |-> <<1, -1>>, den |-> 1]}

\* AdalineGD.predict(X, thetas) on a fitted instance, lines 192-209.
APredict ==
    /\ cls = "AdalineGD" /\ pc = "fitted"
    /\ \E q \in GdPoints, arg \in GdArgs :
          /\ out' = gd_predict(make_polynomial(<<q>>, TRUE), gd_thetas, arg)
          /\ gd_thetas' = ThetasAfterPredict(gd_thetas, arg)
    /\ UNCHANGED <<cls, pc, fitsLeft, budget, X, y, eta, niter, cost, it,
                   cost0, updates, pVars>>

NextA == AFitStart \/ AIter \/ AFitReturn \/ APredict

\* ------------------------------------------------------------ specifications
\* An instance of either class, fitted up to MaxFits times on datasets of up
\* to MaxRefitSamples samples in all, with predict calls in between.
Init ==
    /\ PerceptronNew \/ AdalineNew
    /\ fitsLeft = MaxFits
    /\ budget = MaxRefitSamples
    /\ scale = <<1, 1>>

Next == NextP \/ NextA

Spec == Init /\ [][Next]_vars

\* One Perceptron, fitted once on a dataset of up to MaxSamples samples.
InitFit ==
    /\ PerceptronNew
    /\ fitsLeft = 1
    /\ budget = MaxSamples
    /\ scale = <<1, 1>>

SpecFit == InitFit /\ [][NextP]_vars

\* The same on a dataset of up to MaxRefitSamples samples, and fair: fit is
\* one synchronous call, so once started its next statement runs.
InitSmall ==
    /\ PerceptronNew
    /\ fitsLeft = 1
    /\ budget = MaxRefitSamples
    /\ scale = <<1, 1>>

FairSpecFit == InitSmall /\ [][NextP]_vars /\ WF_vars(NextP)

\* The scale constants c of the scaled runs.
Scales == {<<1, 1>>, <<2, 1>>, <<1, 2>>, <<1, 200000>>}

InitScaled ==
    /\ PerceptronNew
    /\ fitsLeft = 1
    /\ budget = MaxRefitSamples
    /\ scale \in Scales

SpecScaled == InitScaled /\ [][NextP]_vars

\* ------------------------------------------------------------ properties
\* Weight vectors tried for linear separability.  Every labelling of points
\* of {0,1} x {0,1} that some real weight vector separates is separated by one
\* with integer entries in -2..2 (the threshold functions of two variables).
WeightVals == {-2, -1, 0, 1, 2}
WeightVectors == [1..3 -> WeightVals]

\* The running dataset is linearly separable over the bias-augmented design
\* matrix: some weight vector classifies every sample as labelled.
Separable ==
    LET D == Design
    IN  \E w \in WeightVectors : \A k \in 1..Len(X) : predict(D[k], w) = y[k]

\* The stored weights reproduce every training label.
NoTrainingMistake ==
    LET D == Design
    IN  \A k \in 1..Len(X) : predict(D[k], thetas) = y[k]

Started == cls = "Perceptron" /\ pc = "while" /\ index = -1

\* C1: on a linearly separable dataset, a started Perceptron.fit eventually
\* leaves the training loop and returns (reaches the fitted state).
C1_Terminates == (Started /\ Separable) ~> (pc = "fitted")

C1_Witness == pc = "fitted" /\ Separable /\ Len(errors) = 8

AllPositive(s) == \A k \in 1..Len(s) : s[k] > 0

\* C4 as stated: on a dataset that is not linearly separable the training
\* loop never terminates.
C4_Original == (cls = "Perceptron" /\ pc # "new" /\ ~Separable) => ~converged

\* C4 amended: on a dataset that is not linearly separable no epoch is free
\* of mistakes, so the loop never stops through a mistake-free epoch (it can
\* still stop, at an epoch whose updates cancel).
C4_Amended ==
    (cls = "Perceptron" /\ pc # "new" /\ ~AllPositive(errors)) => Separable

C4_Witness == pc = "fitted" /\ ~Separable /\ Len(errors) > 2

IsAnd ==
    /\ X = << <<0, 0>>, <<0, 1>>, <<1, 0>>, <<1, 1>> >>
    /\ y = <<-1, -1, -1, 1>>

\* C6: on the AND dataset fit converges (its sixth epoch is the last); the
\* weights then separate the positive point from the three negatives,
\* predict on [1,1] returns +1 and predict on [0,0] returns -1.
C6_AndScenario ==
    (cls = "Perceptron" /\ IsAnd) =>
        /\ index < 6
        /\ (pc = "while" /\ index = 5) => converged
        /\ converged =>
            /\ NoTrainingMistake
            /\ predict(make_polynomial(<< <<1, 1>> >>, TRUE)[1], thetas) = 1
            /\ predict(make_polynomial(<< <<0, 0>> >>, TRUE)[1], thetas) = -1

C6_Witness ==
    /\ IsAnd /\ pc = "fitted" /\ out = <<1>>
    /\ thetas = <<-3, 2, 1>> /\ errors = <<2, 3, 3, 2, 1, 0>>

AfterEpoch == cls = "Perceptron" /\ pc = "while" /\ Len(errors) > 0

\* C10 as stated: fit terminates at the end of an epoch iff that epoch
\* recorded zero mistakes.
C10_Original == AfterEpoch => (converged <=> errors[Len(errors)] = 0)

\* C10 amended: an epoch with zero mistakes ends fit, so no entry of errors
\* before the last is 0; on a separable dataset fit ends only at such an
\* epoch, the last entry then being 0.
C10_Amended ==
    AfterEpoch =>
        /\ errors[Len(errors)] = 0 => converged
        /\ \A k \in 1..(Len(errors) - 1) : errors[k] # 0
        /\ (converged /\ errors[Len(errors)] # 0) => ~Separable

C10_Witness ==
    /\ AfterEpoch /\ converged /\ Separable
    /\ Len(errors) > 2 /\ errors[Len(errors)] = 0

ScaledAgrees ==
    /\ scaled.thetas = [k \in 1..Len(thetas) |-> scale[1] * thetas[k]]
    /\ scaled.errors = errors
    /\ scaled.error = error
    /\ \A p \in Points :
          LET row == make_polynomial(<<p>>, TRUE)[1]
          IN  predict(row, scaled.thetas) = predict(row, thetas)

InFit == cls = "Perceptron" /\ pc \in {"while", "for", "fitted"}

\* C7 as stated: for every c > 0 the scaled run has, at every step, the
\* same predictions, mistake counts and termination epoch, and c times the
\* weights.
C7_Original == InFit => (ScaledAgrees /\ scaled.converged = converged)

\* C7 amended: the scaled run agrees (predictions, mistake counts, weights
\* times c) at every step until it terminates, and its result is c times
\* the code's weights at the end of that epoch; it terminates at the same
\* epoch as the code when c > tol, and never later.
C7_Amended ==
    InFit =>
        /\ ~scaled.converged => ScaledAgrees
        /\ scaled.converged =>
              LET e == Len(scaled.errors)
              IN  /\ e <= Len(errors)
                  /\ scaled.errors = SubSeq(errors, 1, e)
                  /\ scaled.thetas = [k \in 1..3 |-> scale[1] * weights[e][k]]
        /\ converged => scaled.converged
        /\ scale[1] * TolDen > TolNum * scale[2] => scaled.converged = converged

C7_Witness ==
    /\ pc = "fitted" /\ scale = <<1, 2>> /\ Len(errors) > 3
    /\ thetas # ZeroThetas(3)

\* ---- what a freshly constructed instance holds after one fit(X, y)
\* The for loop of one epoch from sample k on.
RECURSIVE FreshEpoch(_, _, _, _, _)
FreshEpoch(th, err, Xd, yv, k) ==
    IF k > Len(Xd) THEN [thetas |-> th, error |-> err]
    ELSE LET r == SampleStep(th, err, Xd[k], yv[k], 1)
         IN  FreshEpoch(r.thetas, r.error, Xd, yv, k + 1)

\* The while loop, for at most fuel epochs.
RECURSIVE FreshLoop(_, _, _, _, _)
FreshLoop(th, errs, Xd, yv, fuel) ==
    IF fuel = 0 THEN [thetas |-> th, errors |-> errs]
    ELSE LET r == FreshEpoch(th, 0, Xd, yv, 1)
         IN  IF Converged(r.thetas, th, 1)
             THEN [thetas |-> r.thetas, errors |-> Append(errs, r.error)]
             ELSE FreshLoop(r.thetas, Append(errs, r.error), Xd, yv, fuel - 1)

FreshPerceptron == FreshLoop(ZeroThetas(3), <<>>, Design, y, MaxEpochs)

RECURSIVE FreshGdLoop(_, _, _, _, _)
FreshGdLoop(th, hist, Xd, yv, todo) ==
    IF todo = 0 THEN [thetas |-> th, cost |-> hist]
    ELSE LET E == GdError(th, Xd, yv)
         IN  FreshGdLoop(GdUpdate(th, Xd, E, eta),
                         Append(hist, GdLoss(E, th.den, Len(Xd))), Xd, yv, todo - 1)

FreshAdaline ==
    FreshGdLoop([num |-> ZeroThetas(2), den |-> 1], <<>>, Design, y, niter)

\* C3: whatever fit calls came before, a fitted instance holds the weights
\* and the history (Perceptron.errors, AdalineGD.cost) that a fresh instance
\* holds after one fit on the last (X, y).
C3_FitResets ==
    pc = "fitted" =>
        /\ cls = "Perceptron" =>
              thetas = FreshPerceptron.thetas /\ errors = FreshPerceptron.errors
        /\ cls = "AdalineGD" =>
              gd_thetas = FreshAdaline.thetas /\ cost = FreshAdaline.cost

\* C5: a predict call of either class leaves the weights, the history and
\* the Perceptron weight trajectory as they were.
C5_PredictPure ==
    [][(PPredict \/ APredict) =>
          UNCHANGED <<thetas, errors, self_weights, gd_thetas, cost>>]_vars

C5_Witness ==
    /\ cls = "AdalineGD" /\ pc = "fitted" /\ Len(cost) > 1
    /\ out # <<>> /\ out # gd_predict(make_polynomial(<< <<1>> >>, TRUE), gd_thetas, NoneThetas)

\* C8: AdalineGD.fit appends one cost and makes one weight update per
\* iteration and returns after exactly niter of them, with no early stop,
\* also when the cost grows.
C8_FixedIterations ==
    (cls = "AdalineGD" /\ pc \in {"gd_loop", "fitted"}) =>
        /\ Len(cost) = cost0 + it
        /\ updates = it
        /\ pc = "fitted" => it = niter

\* a < b for rationals.
RatLess(a, b) == ~RatLeq(b, a)

C8_Witness ==
    /\ cls = "AdalineGD" /\ pc = "fitted" /\ niter = 3 /\ cost0 = 0
    /\ RatLess(cost[1], cost[2]) /\ RatLess(cost[2], cost[3])

\* The targets are a linear function a + b * x of the feature.
LinearTargets ==
    \E a \in -1..1, b \in -2..2 : \A i \in 1..Len(X) : y[i] = a + b * X[i][1]

\* eta <= 2n / trace(X^T X) (X the design matrix): no eigenvalue of
\* eta * X^T X / n exceeds 2.
SmallEta ==
    eta[1] * SumSeq([i \in 1..Len(X) |-> NormSq(Design[i])]) <= 2 * Len(X) * eta[2]

\* C9: with linear targets and eta small, the costs one fit call appends
\* never increase from one iteration to the next.
C9_CostNonIncreasing ==
    (cls = "AdalineGD" /\ pc \in {"gd_loop", "fitted"} /\ LinearTargets /\ SmallEta) =>
        \A k \in (cost0 + 1)..(Len(cost) - 1) : RatLeq(cost[k + 1], cost[k])

C9_Witness ==
    /\ cls = "AdalineGD" /\ pc = "fitted" /\ LinearTargets /\ SmallEta
    /\ niter = 3 /\ Len(X) = 3 /\ cost[3] # <<0, 1>>
    /\ RatLess(cost[2], cost[1]) /\ RatLess(cost[3], cost[2])
====
